---- MODULE Spec2Model ----
(***************************************************************************)
(* Rate limiter (src/src/rag_agent/security.py, check_rate_limit) and      *)
(* cache manager (src/src/rag_agent/caching.py, CacheManager) of the RAG   *)
(* agent platform, with their two stores: the Redis server ("Remote") and  *)
(* the module-level dictionaries ("Local").                                *)
(*                                                                         *)
(* Strings are sequences of characters (one-character strings; the fixed   *)
(* prefix "rate_limit" is kept as one element).  Time is the integer that  *)
(* int(time.time()) returns.  Callers of check_rate_limit are threads of   *)
(* one process: they share the Local dictionaries and the Redis server.    *)
(***************************************************************************)
EXTENDS Integers, Sequences, FiniteSets, TLC

\* ------------------------------------------------------------- bounds
\* The clock value of the initial state and how far the clock may advance.
StartTime == 17
MaxElapsed == 2
\* How many whole windows the clock may skip.
MaxWindows == 2
\* check_rate_limit calls and cache operations issued in one behaviour.
MaxCalls == 3
\* RATE_LIMIT_REQUESTS ranges over 1..MaxLimit.
MaxLimit == 2

\* ------------------------------------------------- program constants
\* RATE_LIMIT_WINDOW (environment variable, security.py:32), here 2 seconds.
RATE_LIMIT_WINDOW == 2
\* CacheManager.cache_ttl (caching.py:30).
cache_ttl == 3600

Procs == {1, 2}

\* Identifier and endpoint strings handed to check_rate_limit.
Pairs ==
    { << <<"a">>, <<"c">> >>,
      << <<"a", ":", "b">>, <<"c">> >>,
      << <<"a">>, <<"b", ":", "c">> >> }

\* The pair of the single-client specifications.
OnePair == { << <<"a">>, <<"c">> >> }

\* Keys, values and ttl arguments handed to the cache manager.  A ttl of 0
\* stands for the default None (both are falsy in "ttl or self.cache_ttl").
CacheKeys == { <<"q", ":", "a">>, <<"b">> }

\* The key of the single-key specifications.
OneKey == { <<"q", ":", "a">> }

PyInt == "7"
PyTuple == "(1, 2)"
PyList == "[1, 2]"
PyObject == "object()"
SetValues == {PyInt, PyTuple, PyObject}
TtlArgs == {0, 1}

\* Patterns handed to clear; the empty one stands for the default None (both
\* are falsy in "if pattern:").
Patterns == { << >>, <<"q", ":", "*">> }

\* What get returns for a miss.
Miss == "None"

\* ------------------------------------------------------ dictionaries
Put(m, k, v) == [x \in (DOMAIN m) \cup {k} |-> IF x = k THEN v ELSE m[x]]

Del(m, k) == [x \in (DOMAIN m) \ {k} |-> m[x]]

EmptyMap == << >>

\* ---------------------------------------------------------- strings
DigitChar(d) == <<"0", "1", "2", "3", "4", "5", "6", "7", "8", "9">>[d + 1]

DigitVal(c) == CHOOSE d \in 0..9 : DigitChar(d) = c

RECURSIVE Str(_)
\* str(n) for a natural number n.
Str(n) == IF n < 10 THEN <<DigitChar(n)>> ELSE Str(n \div 10) \o <<DigitChar(n % 10)>>

RECURSIVE StrLess(_, _)
\* a < b for Python strings of digits: lexicographic, a proper prefix first.
StrLess(a, b) ==
    IF a = << >> THEN b # << >>
    ELSE IF b = << >> THEN FALSE
    ELSE IF a[1] # b[1] THEN DigitVal(a[1]) < DigitVal(b[1])
    ELSE StrLess(Tail(a), Tail(b))

\* min(d.keys()) of a dictionary keyed by digit strings.
MinKey(d) == CHOOSE k \in DOMAIN d : \A j \in DOMAIN d : j = k \/ StrLess(k, j)

RECURSIVE GlobMatch(_, _)
\* Redis KEYS pattern: "*" matches any run of characters, "?" any one.
GlobMatch(pat, str) ==
    IF pat = << >> THEN str = << >>
    ELSE IF pat[1] = "*"
    THEN GlobMatch(Tail(pat), str) \/ (str # << >> /\ GlobMatch(pat, Tail(str)))
    ELSE /\ str # << >>
         /\ pat[1] = "?" \/ pat[1] = str[1]
         /\ GlobMatch(Tail(pat), Tail(str))

\* Python's "pattern in k" for strings.
Contains(pat, str) ==
    \E i \in 0..(Len(str) - Len(pat)) : SubSeq(str, i + 1, i + Len(pat)) = pat

\* rate_limit_key(identifier, endpoint): f"rate_limit:{identifier}:{endpoint}"
rate_limit_key(identifier, endpoint) ==
    <<"rate_limit", ":">> \o identifier \o <<":">> \o endpoint

\* f"{key}:{window_start}"
redis_key(key, window_start) == key \o <<":">> \o Str(window_start)

\* current_time // rate_limit_window
WindowStart(current_time) == current_time \div RATE_LIMIT_WINDOW

\* -------------------------------------------------------------- state
VARIABLES
    now,          \* the clock
    secClient,    \* security_config.redis_client is not None
    cacheClient,  \* CacheManager.redis_client is not None
    enabled,      \* security_config.rate_limit_enabled
    limit,        \* security_config.rate_limit_requests
    redisDb,      \* the Redis database: key -> [val, exp]
    memRate,      \* _memory_rate_limits: key -> (window string -> count)
    memCache,     \* _memory_cache
    memTs,        \* _cache_timestamps
    pc,           \* each thread's position in check_rate_limit
    loc,          \* each thread's local variables
    calls,        \* operations issued so far
    overlap,      \* two check_rate_limit calls were in progress at once
    stats,        \* history: per (identifier, endpoint, window) the calls completed
    last,         \* history: the check_rate_limit call that completed last
    khist,        \* history: per cache key, its latest set and whether it was deleted since
    cacheLog      \* history: the cache operation that completed last

vars == <<now, secClient, cacheClient, enabled, limit, redisDb, memRate,
          memCache, memTs, pc, loc, calls, overlap, stats, last, khist, cacheLog>>

cfgVars == <<secClient, cacheClient, enabled, limit>>
cacheVars == <<memCache, memTs, khist, cacheLog>>
hist == <<stats, last>>
rateVars == <<memRate, pc, loc, overlap, hist>>

\* History of the calls of one (identifier, endpoint, window): n completed, of
\* which `allowed` returned, `denied` raised the 429, and whether every one of
\* them got its answers from Redis (rok) or every one of them found Redis
\* failing or had no client (rdown).
NoStat == [n |-> 0, allowed |-> 0, denied |-> 0, rok |-> TRUE, rdown |-> TRUE]

NoCall == [k |-> 0]

\* History of one cache key: the number of sets (2 for two or more), the value,
\* ttl and time of the latest one, how the entry was destroyed since ("no",
\* "deleted", "cleared"), and whether Redis answered that delete.
NoKey == [n |-> 0, val |-> Miss, ttl |-> 0, at |-> 0, gone |-> "no", delUp |-> FALSE]

NoOp == [op |-> "none"]

NoLoc == [id |-> << >>, ep |-> << >>, win |-> 0, tmp |-> 0, remote |-> "none"]

\* The state after the module-level SecurityConfig() and the CacheManager have
\* been constructed: each keeps a client only if its own ping succeeded, and
\* the cache manager only if REDIS_HOST is set.
Init ==
    /\ now = StartTime
    /\ secClient \in BOOLEAN
    /\ \E ping \in BOOLEAN, redis_host \in BOOLEAN : cacheClient = (redis_host /\ ping)
    /\ enabled \in BOOLEAN
    /\ limit \in 1..MaxLimit
    /\ redisDb = EmptyMap
    /\ memRate = EmptyMap
    /\ memCache = EmptyMap
    /\ memTs = EmptyMap
    /\ pc = [p \in Procs |-> "idle"]
    /\ loc = [p \in Procs |-> NoLoc]
    /\ calls = 0
    /\ overlap = FALSE
    /\ stats = EmptyMap
    /\ last = NoCall
    /\ khist = [k \in CacheKeys |-> NoKey]
    /\ cacheLog = NoOp

\* ------------------------------------------------------- environment
\* The expiry of a Redis key that has none (TTL answers -1 for it).
NoExpiry == -1

\* Redis removes a key once its expiry time is reached; a key without expiry
\* stays.
Live(db, t) == [k \in {x \in DOMAIN db : db[x].exp = NoExpiry \/ db[x].exp > t} |-> db[k]]

\* One second passes.
Tick ==
    /\ (now - StartTime) % cache_ttl < MaxElapsed
    /\ now' = now + 1
    /\ redisDb' = Live(redisDb, now + 1)
    /\ UNCHANGED <<cfgVars, cacheVars, rateVars, calls>>

\* A whole rate-limit window passes.
WindowPasses ==
    /\ now - StartTime < MaxWindows * RATE_LIMIT_WINDOW
    /\ now' = now + RATE_LIMIT_WINDOW
    /\ redisDb' = Live(redisDb, now + RATE_LIMIT_WINDOW)
    /\ UNCHANGED <<cfgVars, cacheVars, rateVars, calls>>

\* -------------------------------------------------- check_rate_limit
Key(p) == rate_limit_key(loc[p].id, loc[p].ep)

WindowKey(p) == Str(loc[p].win)

StatOf(st, c) == IF c \in DOMAIN st THEN st[c] ELSE NoStat

\* What a result carries to the caller: the HTTPException of a denial has the
\* status code and a detail text naming the limit and the window; a return
\* carries nothing.
Carried(res) ==
    IF res = "Denied"
    THEN [status_code |-> 429, limit |-> limit, window_seconds |-> RATE_LIMIT_WINDOW]
    ELSE [none |-> TRUE]

\* A call for (identifier, endpoint) of window win ends with result res.
Record(identifier, endpoint, win, res, remote, usedLocal) ==
    LET c == <<identifier, endpoint, win>>
        o == StatOf(stats, c)
    IN  /\ stats' = Put(stats, c,
                        [n |-> o.n + 1,
                         allowed |-> o.allowed + (IF res = "Allowed" THEN 1 ELSE 0),
                         denied |-> o.denied + (IF res = "Denied" THEN 1 ELSE 0),
                         rok |-> o.rok /\ remote \in {"ok", "denied"},
                         rdown |-> o.rdown /\ remote \in {"fail", "none"}])
        /\ last' = [k |-> o.n + 1, id |-> identifier, ep |-> endpoint, win |-> win,
                    res |-> res, remote |-> remote, local |-> usedLocal,
                    carried |-> Carried(res), at |-> now]

\* The call of thread p ends with result res.
Finish(p, res, usedLocal) ==
    /\ Record(loc[p].id, loc[p].ep, loc[p].win, res, loc[p].remote, usedLocal)
    /\ pc' = [pc EXCEPT ![p] = "idle"]
    /\ loc' = [loc EXCEPT ![p] = NoLoc]

\* if not security_config.rate_limit_enabled: return
CallDisabled(p, identifier, endpoint) ==
    /\ pc[p] = "idle"
    /\ calls < MaxCalls
    /\ ~enabled
    /\ calls' = calls + 1
    /\ Record(identifier, endpoint, WindowStart(now), "Allowed", "none", FALSE)
    /\ UNCHANGED <<now, cfgVars, redisDb, cacheVars, memRate, pc, loc, overlap>>

\* Begin without the test of rate_limit_enabled.
BeginUnchecked(p, identifier, endpoint) ==
    /\ pc[p] = "idle"
    /\ calls < MaxCalls
    /\ calls' = calls + 1
    /\ loc' = [loc EXCEPT ![p] = [id |-> identifier, ep |-> endpoint,
                                  win |-> WindowStart(now), tmp |-> 0, remote |-> "none"]]
    /\ pc' = [pc EXCEPT ![p] = IF secClient THEN "redis_get" ELSE "mem_ensure"]
    /\ overlap' = (overlap \/ \E q \in Procs \ {p} : pc[q] # "idle")
    /\ UNCHANGED <<now, cfgVars, redisDb, cacheVars, memRate, hist>>

\* key, current_time, window_start; if security_config.redis_client: ...
Begin(p, identifier, endpoint) ==
    /\ pc[p] = "idle"
    /\ calls < MaxCalls
    /\ enabled
    /\ calls' = calls + 1
    /\ loc' = [loc EXCEPT ![p] = [id |-> identifier, ep |-> endpoint,
                                  win |-> WindowStart(now), tmp |-> 0, remote |-> "none"]]
    /\ pc' = [pc EXCEPT ![p] = IF secClient THEN "redis_get" ELSE "mem_ensure"]
    /\ overlap' = (overlap \/ \E q \in Procs \ {p} : pc[q] # "idle")
    /\ UNCHANGED <<now, cfgVars, redisDb, cacheVars, memRate, hist>>

\* current = redis_client.get(redis_key);
\* current and int(current) >= security_config.rate_limit_requests
RedisOverLimit(db, k) == k \in DOMAIN db /\ db[k].val >= limit

\* ExceptTarget without the except clause: the exception leaves the call.
ExceptTargetRaises(raised) == "raise"

\* Where the call continues when the try block raises: "except Exception: pass"
\* falls through to the in-memory path ("raise" would end the call with it).
ExceptTarget(raised) == "mem_ensure"

\* Thread p's try block raises `raised`, having found Redis in state remote.
Except(p, raised, remote) ==
    IF ExceptTarget(raised) = "raise"
    THEN /\ Record(loc[p].id, loc[p].ep, loc[p].win, raised, remote, FALSE)
         /\ pc' = [pc EXCEPT ![p] = "idle"]
         /\ loc' = [loc EXCEPT ![p] = NoLoc]
    ELSE /\ pc' = [pc EXCEPT ![p] = ExceptTarget(raised)]
         /\ loc' = [loc EXCEPT ![p].remote = remote]
         /\ UNCHANGED hist

\* current = security_config.redis_client.get(redis_key) answers, and the limit
\* test; its HTTPException is raised inside the try block.
RedisGetOk(p) ==
    /\ pc[p] = "redis_get"
    /\ IF RedisOverLimit(redisDb, redis_key(Key(p), loc[p].win))
       THEN Except(p, "HTTPException", "denied")
       ELSE /\ pc' = [pc EXCEPT ![p] = "redis_pipe"]
            /\ loc' = [loc EXCEPT ![p].remote = "ok"]
            /\ UNCHANGED hist
    /\ UNCHANGED <<now, cfgVars, redisDb, cacheVars, memRate, calls, overlap>>

\* The get raises a connection error or times out.
RedisGetFail(p) ==
    /\ pc[p] = "redis_get"
    /\ Except(p, "ConnectionError", "fail")
    /\ UNCHANGED <<now, cfgVars, redisDb, cacheVars, memRate, calls, overlap>>

\* RedisIncrExpire with the expire left out of the transaction: the incr alone.
RedisIncrOnly(db, k, t) ==
    Put(db, k, [val |-> (IF k \in DOMAIN db THEN db[k].val ELSE 0) + 1,
                exp |-> IF k \in DOMAIN db THEN db[k].exp ELSE NoExpiry])

\* RedisIncrExpire with the expire issued only for the increment that creates
\* the key.
RedisIncrExpireOnce(db, k, t) ==
    Put(db, k, [val |-> (IF k \in DOMAIN db THEN db[k].val ELSE 0) + 1,
                exp |-> IF k \in DOMAIN db THEN db[k].exp ELSE t + RATE_LIMIT_WINDOW])

\* pipe.incr(redis_key); pipe.expire(redis_key, window); pipe.execute(): one
\* MULTI/EXEC transaction (redis-py pipelines are transactional by default).
RedisIncrExpire(db, k, t) ==
    Put(db, k, [val |-> (IF k \in DOMAIN db THEN db[k].val ELSE 0) + 1,
                exp |-> t + RATE_LIMIT_WINDOW])

RedisPipeOk(p) ==
    /\ pc[p] = "redis_pipe"
    /\ redisDb' = RedisIncrExpire(redisDb, redis_key(Key(p), loc[p].win), now)
    /\ Finish(p, "Allowed", FALSE)
    /\ UNCHANGED <<now, cfgVars, cacheVars, memRate, calls, overlap>>

\* The pipeline raises a connection error or times out; nothing is executed.
RedisPipeFail(p) ==
    /\ pc[p] = "redis_pipe"
    /\ Except(p, "ConnectionError", "fail")
    /\ UNCHANGED <<now, cfgVars, redisDb, cacheVars, memRate, calls, overlap>>

\* if key not in _memory_rate_limits: ...; if window_key not in ...: ... = 0
MemEnsure(p) ==
    /\ pc[p] = "mem_ensure"
    /\ LET d == IF Key(p) \in DOMAIN memRate THEN memRate[Key(p)] ELSE EmptyMap
           d2 == IF WindowKey(p) \in DOMAIN d THEN d ELSE Put(d, WindowKey(p), 0)
       IN  memRate' = Put(memRate, Key(p), d2)
    /\ pc' = [pc EXCEPT ![p] = "mem_load"]
    /\ UNCHANGED <<now, cfgVars, redisDb, cacheVars, loc, calls, overlap, hist>>

\* _memory_rate_limits[key][window_key] += 1, the read
MemLoad(p) ==
    /\ pc[p] = "mem_load"
    /\ IF WindowKey(p) \in DOMAIN memRate[Key(p)]
       THEN /\ loc' = [loc EXCEPT ![p].tmp = memRate[Key(p)][WindowKey(p)]]
            /\ pc' = [pc EXCEPT ![p] = "mem_store"]
            /\ UNCHANGED hist
       ELSE Finish(p, "KeyError", TRUE)
    /\ UNCHANGED <<now, cfgVars, redisDb, cacheVars, memRate, calls, overlap>>

\* _memory_rate_limits[key][window_key] += 1, the write
MemStore(p) ==
    /\ pc[p] = "mem_store"
    /\ memRate' = Put(memRate, Key(p), Put(memRate[Key(p)], WindowKey(p), loc[p].tmp + 1))
    /\ pc' = [pc EXCEPT ![p] = "mem_clean"]
    /\ UNCHANGED <<now, cfgVars, redisDb, cacheVars, loc, calls, overlap, hist>>

\* if len(...) > 2: oldest = min(keys); del ...[oldest]
CleanOld(d) == IF Cardinality(DOMAIN d) > 2 THEN Del(d, MinKey(d)) ELSE d

MemClean(p) ==
    /\ pc[p] = "mem_clean"
    /\ memRate' = Put(memRate, Key(p), CleanOld(memRate[Key(p)]))
    /\ pc' = [pc EXCEPT ![p] = "mem_check"]
    /\ UNCHANGED <<now, cfgVars, redisDb, cacheVars, loc, calls, overlap, hist>>

\* _memory_rate_limits[key][window_key] >= security_config.rate_limit_requests
MemOverLimit(count) == count >= limit

MemCheck(p) ==
    /\ pc[p] = "mem_check"
    /\ LET d == memRate[Key(p)]
       IN  IF WindowKey(p) \notin DOMAIN d THEN Finish(p, "KeyError", TRUE)
           ELSE IF MemOverLimit(d[WindowKey(p)]) THEN Finish(p, "Denied", TRUE)
           ELSE Finish(p, "Allowed", TRUE)
    /\ UNCHANGED <<now, cfgVars, redisDb, cacheVars, memRate, calls, overlap>>

\* ------------------------------------------------------ CacheManager
\* json.dumps(value): the text, or "TypeError" for a value json cannot encode.
json_dumps(v) ==
    CASE v = PyInt -> "7"
      [] v = PyTuple -> "[1, 2]"
      [] v = PyList -> "[1, 2]"
      [] v = Miss -> "null"
      [] OTHER -> "TypeError"

\* json.loads(text)
json_loads(t) == IF t = "7" THEN PyInt ELSE IF t = "null" THEN Miss ELSE PyList

\* ttl = ttl or self.cache_ttl
EffectiveTtl(ttl) == IF ttl = 0 THEN cache_ttl ELSE ttl

\* What a cache method does when its try block raises: "except Exception: pass"
\* goes on to the memory cache.
CacheExcept(raised) == "memory"

\* The memory-cache part of get: the value returned and the dictionaries after.
\* An entry is returned while time.time() - _cache_timestamps[key] < cache_ttl.
MemFresh(ts, k, t) == t - ts[k] < cache_ttl

\* MemGet that drops an expired value but leaves its timestamp.
MemGetKeepTs(mc, ts, k, t) ==
    IF k \in DOMAIN mc /\ k \in DOMAIN ts
    THEN IF MemFresh(ts, k, t)
         THEN [res |-> mc[k], mc |-> mc, ts |-> ts]
         ELSE [res |-> Miss, mc |-> Del(mc, k), ts |-> ts]
    ELSE [res |-> Miss, mc |-> mc, ts |-> ts]

MemGet(mc, ts, k, t) ==
    IF k \in DOMAIN mc /\ k \in DOMAIN ts
    THEN IF MemFresh(ts, k, t)
         THEN [res |-> mc[k], mc |-> mc, ts |-> ts]
         ELSE [res |-> Miss, mc |-> Del(mc, k), ts |-> Del(ts, k)]
    ELSE [res |-> Miss, mc |-> mc, ts |-> ts]

\* The previous operation was a set of key k at this very time under the same
\* Redis availability: then its value, else Miss.
JustSet(k, up) ==
    IF cacheLog.op = "set" /\ cacheLog.key = k /\ cacheLog.at = now /\ cacheLog.up = up
    THEN cacheLog.val ELSE Miss

\* The record of a completed cache operation: its key, the time, whether Redis
\* answered (up), its value argument, its result and the store that gave it.
Done(op, k, up, v, res, src) ==
    [op |-> op, key |-> k, at |-> now, up |-> up, val |-> v, res |-> res, src |-> src]

\* Redis availability during one cache call; without a client it plays no part.
Avail == IF cacheClient THEN BOOLEAN ELSE {FALSE}

\* CacheManager.get(key); up: whether Redis answers during the call.
CacheGet(k, up) ==
    /\ calls < MaxCalls
    /\ calls' = calls + 1
    /\ LET m == MemGet(memCache, memTs, k, now)
       IN  IF cacheClient /\ up /\ k \in DOMAIN redisDb
           THEN /\ cacheLog' = Done("get", k, up, JustSet(k, up),
                                     json_loads(redisDb[k].val), "redis")
                /\ UNCHANGED <<memCache, memTs>>
           ELSE IF cacheClient /\ ~up /\ CacheExcept("ConnectionError") = "raise"
           THEN /\ cacheLog' = Done("get", k, up, JustSet(k, up), "ConnectionError", "redis")
                /\ UNCHANGED <<memCache, memTs>>
           ELSE /\ cacheLog' = Done("get", k, up, JustSet(k, up), m.res, "memory")
                /\ memCache' = m.mc
                /\ memTs' = m.ts
    /\ UNCHANGED <<now, cfgVars, redisDb, khist, rateVars>>

\* CacheManager.set(key, value, ttl)
CacheSet(k, v, ttl, up) ==
    /\ calls < MaxCalls
    /\ calls' = calls + 1
    /\ khist' = [khist EXCEPT ![k] = [n |-> IF @.n < 2 THEN @.n + 1 ELSE 2, val |-> v,
                                      ttl |-> EffectiveTtl(ttl), at |-> now,
                                      gone |-> "no", delUp |-> FALSE]]
    /\ LET raised == IF json_dumps(v) = "TypeError" THEN "TypeError"
                     ELSE IF ~up THEN "ConnectionError" ELSE "no"
       IN  IF cacheClient /\ raised = "no"
           THEN /\ redisDb' = Put(redisDb, k, [val |-> json_dumps(v),
                                               exp |-> now + EffectiveTtl(ttl)])
                /\ cacheLog' = Done("set", k, up, v, "True", "redis")
                /\ UNCHANGED <<memCache, memTs>>
           ELSE IF cacheClient /\ CacheExcept(raised) = "raise"
           THEN /\ cacheLog' = Done("set", k, up, v, raised, "redis")
                /\ UNCHANGED <<redisDb, memCache, memTs>>
           ELSE /\ memCache' = Put(memCache, k, v)
                /\ memTs' = Put(memTs, k, now)
                /\ cacheLog' = Done("set", k, up, v, "True", "memory")
                /\ UNCHANGED redisDb
    /\ UNCHANGED <<now, cfgVars, rateVars>>

\* Whether either store holds an entry for key k.
Held(k) == IF k \in DOMAIN redisDb \/ k \in DOMAIN memCache THEN "held" ELSE Miss

\* CacheManager.delete(key); the record's val tells whether an entry was held
\* before the call.
CacheDelete(k, up) ==
    /\ calls < MaxCalls
    /\ calls' = calls + 1
    /\ khist' = [khist EXCEPT ![k].gone = "deleted", ![k].delUp = up]
    /\ IF cacheClient /\ up
       THEN /\ redisDb' = Del(redisDb, k)
            /\ cacheLog' = Done("delete", k, up, Held(k), "True", "redis")
            /\ UNCHANGED <<memCache, memTs>>
       ELSE IF cacheClient /\ CacheExcept("ConnectionError") = "raise"
       THEN /\ cacheLog' = Done("delete", k, up, Held(k), "ConnectionError", "redis")
            /\ UNCHANGED <<redisDb, memCache, memTs>>
       ELSE /\ memCache' = Del(memCache, k)
            /\ memTs' = IF k \in DOMAIN memCache THEN Del(memTs, k) ELSE memTs
            /\ cacheLog' = Done("delete", k, up, Held(k),
                                IF k \in DOMAIN memCache THEN "True" ELSE "False", "memory")
            /\ UNCHANGED redisDb
    /\ UNCHANGED <<now, cfgVars, rateVars>>

\* CacheManager.clear(pattern)
CacheClear(pattern, up) ==
    /\ calls < MaxCalls
    /\ calls' = calls + 1
    /\ khist' = IF pattern = << >>
                THEN [k \in CacheKeys |-> [khist[k] EXCEPT !.gone = "cleared", !.delUp = FALSE]]
                ELSE khist
    /\ LET memKeep == IF pattern = << >> THEN {}
                      ELSE {k \in DOMAIN memCache : ~Contains(pattern, k)}
           redisKeep == IF pattern = << >> THEN {}
                        ELSE {k \in DOMAIN redisDb : ~GlobMatch(pattern, k)}
       IN  IF cacheClient /\ ~up /\ CacheExcept("ConnectionError") = "raise"
           THEN /\ cacheLog' = Done("clear", pattern, up, Miss, "ConnectionError", "redis")
                /\ UNCHANGED <<redisDb, memCache, memTs>>
           ELSE /\ redisDb' = IF cacheClient /\ up THEN [k \in redisKeep |-> redisDb[k]]
                              ELSE redisDb
                /\ memCache' = [k \in memKeep |-> memCache[k]]
                /\ memTs' = [k \in (DOMAIN memTs) \ ((DOMAIN memCache) \ memKeep) |-> memTs[k]]
                /\ cacheLog' = Done("clear", pattern, up, Miss, Miss,
                                    IF cacheClient /\ up THEN "redis+memory" ELSE "memory")
    /\ UNCHANGED <<now, cfgVars, rateVars>>

\* What the decorated function returns: an int or None.
FuncResults == {PyInt, Miss}

\* cache_query_result(ttl: int = 3600)
DecoratorTtl == 3600

\* The wrapper of cache_query_result around a function that returns `result`,
\* called with arguments that give cache key k: cache_manager.get(cache_key);
\* if that is None, func() and cache_manager.set(cache_key, result, ttl).
\* upGet, upSet: whether Redis answers the get and the set.  The record tells
\* whether the function ran (src) and whether the call before this one was the
\* same call, at the same time and under the same Redis availability (again).
Wrapper(k, result, upGet, upSet) ==
    /\ calls < MaxCalls
    /\ calls' = calls + 1
    /\ LET got == IF cacheClient /\ upGet /\ k \in DOMAIN redisDb
                  THEN [res |-> json_loads(redisDb[k].val), mc |-> memCache, ts |-> memTs]
                  ELSE MemGet(memCache, memTs, k, now)
           again == /\ cacheLog.op = "wrapper"
                    /\ cacheLog.key = k /\ cacheLog.val = result /\ cacheLog.at = now
                    /\ cacheLog.steady /\ cacheLog.up = upGet
           raised == IF json_dumps(result) = "TypeError" THEN "TypeError"
                     ELSE IF ~upSet THEN "ConnectionError" ELSE "no"
       IN  IF got.res # Miss
           THEN /\ cacheLog' = [op |-> "wrapper", key |-> k, at |-> now, up |-> upGet,
                                 val |-> result, res |-> got.res, src |-> "cache",
                                 steady |-> TRUE, again |-> again]
                /\ memCache' = got.mc
                /\ memTs' = got.ts
                /\ UNCHANGED <<redisDb, khist>>
           ELSE /\ cacheLog' = [op |-> "wrapper", key |-> k, at |-> now, up |-> upGet,
                                 val |-> result, res |-> result, src |-> "func",
                                 steady |-> (upSet = upGet), again |-> again]
                /\ khist' = [khist EXCEPT ![k] = [n |-> IF @.n < 2 THEN @.n + 1 ELSE 2,
                                                  val |-> result, ttl |-> DecoratorTtl,
                                                  at |-> now, gone |-> "no",
                                                  delUp |-> FALSE]]
                /\ IF cacheClient /\ raised = "no"
                   THEN /\ redisDb' = Put(redisDb, k, [val |-> json_dumps(result),
                                                       exp |-> now + DecoratorTtl])
                        /\ memCache' = got.mc
                        /\ memTs' = got.ts
                   ELSE /\ memCache' = Put(got.mc, k, result)
                        /\ memTs' = Put(got.ts, k, now)
                        /\ UNCHANGED redisDb
    /\ UNCHANGED <<now, cfgVars, rateVars>>

\* ------------------------------------------------------ _generate_key
\* Arguments handed to _generate_key: the prefix, positional arguments (a
\* sequence of values) and named arguments (a sequence of <<name, value>> in
\* the order the caller wrote them, names distinct).
KeyPrefixes == { <<"q">> }

ArgValues == {PyInt, PyTuple, PyList}

KeyArgs == { << >> } \cup {<<a>> : a \in ArgValues} \cup {<<a, b>> : a, b \in ArgValues}

KeyKwargs ==
    { << >>,
      << <<"a", PyInt>> >>,
      << <<"a", PyList>> >>,
      << <<"a", PyInt>>, <<"b", PyInt>> >>,
      << <<"b", PyInt>>, <<"a", PyInt>> >> }

\* The names in sorted order.
NameOrder == <<"a", "b">>

RECURSIVE JsonItems(_)
\* The json texts of the items of a sequence, separated by ", ".
JsonItems(items) ==
    IF items = << >> THEN << >>
    ELSE IF Len(items) = 1 THEN <<json_dumps(items[1])>>
    ELSE <<json_dumps(items[1]), ", ">> \o JsonItems(Tail(items))

\* The named arguments in the order json.dumps(..., sort_keys=True) writes them.
SortedKwargs(kwargs) ==
    LET has(n) == \E i \in 1..Len(kwargs) : kwargs[i][1] = n
        at(n) == CHOOSE i \in 1..Len(kwargs) : kwargs[i][1] = n
        names == SelectSeq(NameOrder, has)
    IN  [j \in 1..Len(names) |-> kwargs[at(names[j])]]

RECURSIVE JsonMembers(_)
\* The json text of the members "name": value of an object.
JsonMembers(kwargs) ==
    IF kwargs = << >> THEN << >>
    ELSE IF Len(kwargs) = 1 THEN <<kwargs[1][1], ": ", json_dumps(kwargs[1][2])>>
    ELSE <<kwargs[1][1], ": ", json_dumps(kwargs[1][2]), ", ">> \o JsonMembers(Tail(kwargs))

\* json.dumps({"args": args, "kwargs": kwargs}, sort_keys=True)
key_data(args, kwargs) ==
    <<"{", "args", ": ", "[">> \o JsonItems(args) \o <<"]", ", ", "kwargs", ": ", "{">>
        \o JsonMembers(SortedKwargs(kwargs)) \o <<"}", "}">>

\* hashlib.md5(text).hexdigest(), taken to be free of collisions.
md5(text) == <<"md5">> \o text

\* f"{prefix}:{key_hash}"
generate_key(prefix, args, kwargs) == prefix \o <<":">> \o md5(key_data(args, kwargs))

\* One call of _generate_key; the record keeps this call and the one before.
GenerateKey(prefix, args, kwargs) ==
    /\ cacheLog' = [op |-> "key",
                    cur |-> [prefix |-> prefix, args |-> args, kwargs |-> kwargs,
                             key |-> generate_key(prefix, args, kwargs)],
                    prev |-> IF cacheLog.op = "key" THEN cacheLog.cur
                             ELSE [key |-> << >>]]
    /\ UNCHANGED <<now, cfgVars, redisDb, memCache, memTs, khist, rateVars, calls>>

\* The default ttl of the cache passes at once.
Jump ==
    /\ now < StartTime + cache_ttl
    /\ now' = now + cache_ttl
    /\ redisDb' = Live(redisDb, now + cache_ttl)
    /\ UNCHANGED <<cfgVars, cacheVars, rateVars, calls>>

\* The cache operations with values drawn from V and ttl arguments from T.
CacheSteps(V, T) ==
    \/ \E k \in OneKey, up \in Avail : CacheGet(k, up)
    \/ \E k \in OneKey, v \in V, ttl \in T, up \in Avail : CacheSet(k, v, ttl, up)
    \/ \E k \in OneKey, up \in Avail : CacheDelete(k, up)
    \/ \E pattern \in Patterns, up \in Avail : CacheClear(pattern, up)

NextEnv == Tick

\* The steps of check_rate_limit taken by the threads of P.
LimiterSteps(P) ==
    \/ \E p \in P, pr \in Pairs : CallDisabled(p, pr[1], pr[2])
    \/ \E p \in P, pr \in OnePair : Begin(p, pr[1], pr[2])
    \/ \E p \in P : RedisGetOk(p)
    \/ \E p \in P : RedisGetFail(p)
    \/ \E p \in P : RedisPipeOk(p)
    \/ \E p \in P : RedisPipeFail(p)
    \/ \E p \in P : MemEnsure(p)
    \/ \E p \in P : MemLoad(p)
    \/ \E p \in P : MemStore(p)
    \/ \E p \in P : MemClean(p)
    \/ \E p \in P : MemCheck(p)

\* The limiter called from two threads.
NextL == NextEnv \/ LimiterSteps(Procs)

SpecLimiter == Init /\ [][NextL]_vars

\* The limiter called from one thread over several windows.
NextW == NextEnv \/ WindowPasses \/ LimiterSteps({1})

SpecWindows == Init /\ [][NextW]_vars

\* The limiter called from one thread for several (identifier, endpoint) pairs.
NextP ==
    \/ NextEnv
    \/ \E pr \in Pairs : Begin(1, pr[1], pr[2])
    \/ LimiterSteps({1})

SpecPairs == Init /\ [][NextP]_vars

\* The cache manager alone.
NextC ==
    \/ NextEnv
    \/ Jump
    \/ CacheSteps(SetValues, TtlArgs)
    \/ \E k \in OneKey, result \in FuncResults, upGet \in Avail, upSet \in Avail :
          Wrapper(k, result, upGet, upSet)

SpecCache == Init /\ [][NextC]_vars

\* The cache manager's get, set, delete and clear called one after the other
\* with the default ttl, over a time in which that ttl can pass.
NextM == NextEnv \/ Jump \/ CacheSteps({PyInt, PyObject}, {0})

SpecMem == Init /\ [][NextM]_vars

\* _generate_key alone.
NextK ==
    \E prefix \in KeyPrefixes, args \in KeyArgs, kwargs \in KeyKwargs :
        GenerateKey(prefix, args, kwargs)

SpecKey == Init /\ [][NextK]_vars

\* Limiter and cache manager called from one thread, the cache with one value
\* and the default ttl.
Next == NextEnv \/ LimiterSteps({1}) \/ CacheSteps({PyInt}, {0})

Spec == Init /\ [][Next]_vars

\* -------------------------------------------------------------- claims
\* The history of the (identifier, endpoint, window) of the call that ended last.
LastStat == StatOf(stats, <<last.id, last.ep, last.win>>)

\* The call that ended last ended in the window it began in.
InWindow == last.k > 0 /\ last.win = WindowStart(now)

\* The answer the k-th call of a window is to get under a limit.
Expected(k) == IF k <= limit THEN "Allowed" ELSE "Denied"

\* C1: of the check_rate_limit calls for one identifier and endpoint inside one
\* window, from any threads, at most `limit` return without the 429 error.
C1_AdmissionBound ==
    enabled => \A c \in DOMAIN stats : stats[c].allowed <= limit

\* C2: a call that finds Redis reachable and the window's counter at the limit
\* ends Denied (the 429 raised on the Redis path reaches the caller).
C2_RemoteDenialSurfaces ==
    (InWindow /\ last.remote = "denied") => last.res = "Denied"

\* C3: calls made one after the other for one identifier and endpoint in one
\* window, all answered by Redis: the k-th is Allowed when k <= limit and
\* Denied when k > limit.
C3_SequentialRemote ==
    (enabled /\ InWindow /\ ~overlap /\ LastStat.rok) => last.res = Expected(last.k)

\* C4: calls made one after the other for one identifier and endpoint in one
\* window while Redis fails on every call: exactly `limit` are Allowed, then
\* Denied.
C4_SequentialLocal ==
    (enabled /\ InWindow /\ ~overlap /\ LastStat.rdown) => last.res = Expected(last.k)

\* C5: counts of one window never count against a later one: the first call of
\* a window that follows a window with a denial is Allowed, and with limit 1
\* the first call of every window is Allowed and the second is Denied.
C5_WindowReset ==
    (enabled /\ InWindow /\ ~overlap) =>
        /\ (last.k = 1 /\ (limit = 1 \/ StatOf(stats, <<last.id, last.ep, last.win - 1>>).denied > 0))
              => last.res = "Allowed"
        /\ (last.k = 2 /\ limit = 1) => last.res = "Denied"

\* What the memory cache alone answers to the cache operation that ended last,
\* read off the dictionaries it left.
MemoryAnswered ==
    LET k == cacheLog.key
    IN  CASE cacheLog.op = "get" ->
               cacheLog.res = (IF k \in DOMAIN memCache THEN memCache[k] ELSE Miss)
          [] cacheLog.op = "set" ->
               /\ cacheLog.res = "True"
               /\ k \in DOMAIN memCache /\ memCache[k] = cacheLog.val
               /\ k \in DOMAIN memTs /\ memTs[k] = cacheLog.at
          [] cacheLog.op = "delete" ->
               cacheLog.res \in {"True", "False"} /\ k \notin DOMAIN memCache
          [] cacheLog.op = "clear" ->
               /\ cacheLog.res = Miss
               /\ \A x \in DOMAIN memCache : k # << >> /\ ~Contains(k, x)

\* C6: a connection failure of Redis during check_rate_limit, get, set, delete
\* or clear never reaches the caller: the call is carried out on the in-memory
\* store and ends with that store's answer.
C6_FallbackTransparent ==
    /\ (last.k > 0 /\ last.remote = "fail") =>
          (last.local /\ last.res # "ConnectionError")
    /\ (cacheLog.op # "none" /\ cacheClient /\ ~cacheLog.up) =>
          (cacheLog.src = "memory" /\ cacheLog.res # "ConnectionError" /\ MemoryAnswered)

\* C6 witness: a check_rate_limit call and a cache set have both met a failing
\* Redis and were answered from memory.
C6_Witness ==
    /\ last.k > 0 /\ last.remote = "fail" /\ last.res = "Allowed"
    /\ cacheLog.op = "set" /\ cacheClient /\ ~cacheLog.up /\ cacheLog.src = "memory"

\* C7: a get issued more than ttl seconds after the latest set(k, v, ttl)
\* returns a miss, whichever store holds the entry.
C7_ExpiryHonoursTtl ==
    (/\ cacheLog.op = "get"
     /\ khist[cacheLog.key].n > 0
     /\ cacheLog.at - khist[cacheLog.key].at > khist[cacheLog.key].ttl)
    => cacheLog.res = Miss

\* C8: set(k, v, ttl) immediately followed by get(k), under the same Redis
\* availability, returns v.
C8_RoundTrip ==
    (cacheLog.op = "get" /\ cacheLog.val # Miss) => cacheLog.res = cacheLog.val

\* A value as json carries it (a tuple is written as a list).
AsJson(v) == IF v = PyTuple THEN PyList ELSE v

\* C9: after two sets of k, a get(k) that returns a value returns the value of
\* the later set (compared as json carries it), whatever Redis failures fell
\* between them.
C9_LaterSetWins ==
    (/\ cacheLog.op = "get"
     /\ khist[cacheLog.key].n >= 2
     /\ khist[cacheLog.key].gone = "no"
     /\ cacheLog.res # Miss)
    => AsJson(cacheLog.res) = AsJson(khist[cacheLog.key].val)

\* C10: after delete(k) was answered by Redis, a get(k) answered by Redis
\* returns a miss until the next set(k).
C10_DeleteThenMiss ==
    (/\ cacheLog.op = "get"
     /\ khist[cacheLog.key].gone = "deleted"
     /\ khist[cacheLog.key].delUp
     /\ cacheLog.up)
    => cacheLog.res = Miss

\* C11: after clear() without a pattern, get(k) is a miss for every key k that
\* was set before the clear and not since, whichever store held the entry.
C11_ClearThenMiss ==
    (/\ cacheLog.op = "get"
     /\ khist[cacheLog.key].n > 0
     /\ khist[cacheLog.key].gone = "cleared")
    => cacheLog.res = Miss

\* C12: delete(k) returns True exactly when an entry for k was held right
\* before the call, and False when none was.
C12_DeleteReturn ==
    cacheLog.op = "delete" => (cacheLog.res = "True" <=> cacheLog.val = "held")

\* C13: with rate limiting disabled every check_rate_limit call returns
\* (Allowed) at once: it makes no Redis call, never enters the in-memory path,
\* and leaves _memory_rate_limits and the Redis counters as they were (empty).
C13_DisabledNoEffect ==
    ~enabled =>
        /\ \A p \in Procs : pc[p] = "idle"
        /\ memRate = EmptyMap
        /\ redisDb = EmptyMap
        /\ \A c \in DOMAIN stats : stats[c].allowed = stats[c].n
        /\ last.k > 0 => (last.res = "Allowed" /\ last.remote = "none" /\ ~last.local)

\* C13 witness: limiting is disabled, a Redis client exists, and calls for two
\* different (identifier, endpoint) pairs have returned.
C13_Witness ==
    ~enabled /\ secClient /\ Cardinality(DOMAIN stats) >= 2 /\ last.k > 0

\* C14: every check_rate_limit call of an enabled limiter attempts Redis
\* first, whatever the connection test at construction gave.
C14_RemoteFirst ==
    (enabled /\ last.k > 0) => last.remote # "none"

\* C15: increment and expiry of a rate-limit counter are one step: in no
\* reachable state, under any interleaving of two threads and any Redis
\* failures, does a counter exist in Redis without an expiry.
C15_CounterHasExpiry ==
    \A k \in DOMAIN redisDb : redisDb[k].exp # NoExpiry

\* C15 witness: two calls overlapped, one met a failing Redis, and a counter
\* has been incremented twice.
C15_Witness ==
    /\ overlap
    /\ last.k > 0 /\ last.remote = "fail"
    /\ \E k \in DOMAIN redisDb : redisDb[k].val >= 2

C17_CountMonotone ==
    [][/\ \A k \in DOMAIN memRate : \A w \in DOMAIN memRate[k] :
             w = Str(WindowStart(now')) =>
                 /\ k \in DOMAIN memRate' /\ w \in DOMAIN memRate'[k]
                 /\ memRate'[k][w] >= memRate[k][w]
       /\ \A pr \in Pairs :
             LET k == redis_key(rate_limit_key(pr[1], pr[2]), WindowStart(now'))
             IN  k \in DOMAIN redisDb =>
                     (k \in DOMAIN redisDb' /\ redisDb'[k].val >= redisDb[k].val)]_vars

\* C18: clear(pattern) removes every key the pattern matches (as a glob) from
\* both stores: after it no matching key is left in the memory cache, nor in
\* Redis when Redis answered the call.
C18_ClearPattern ==
    (cacheLog.op = "clear" /\ cacheLog.key # << >>) =>
        \A k \in CacheKeys :
            GlobMatch(cacheLog.key, k) =>
                /\ k \notin DOMAIN memCache
                /\ (cacheClient /\ cacheLog.up) => k \notin DOMAIN redisDb

\* C19: a call of the memoized function that directly follows the same call
\* (equal arguments, same time, same Redis availability) does not run the
\* function again, whatever value the function returned.
C19_MemoizedOnce ==
    (cacheLog.op = "wrapper" /\ cacheLog.again) => cacheLog.src = "cache"

\* The named arguments as a mapping from names to values.
KwMap(kwargs) ==
    [n \in {kwargs[i][1] : i \in 1..Len(kwargs)} |->
        kwargs[CHOOSE i \in 1..Len(kwargs) : kwargs[i][1] = n][2]]

\* C20: two calls of _generate_key give the identical key exactly when their
\* prefixes are equal, their positional arguments are equal value by value and
\* in order, and their named arguments are equal as mappings (whatever order
\* they were written in).
C20_KeyDeterminism ==
    (cacheLog.op = "key" /\ cacheLog.prev.key # << >>) =>
        LET x == cacheLog.prev
            y == cacheLog.cur
        IN  (x.key = y.key) <=>
                /\ x.prefix = y.prefix
                /\ x.args = y.args
                /\ KwMap(x.kwargs) = KwMap(y.kwargs)

\* C21: every Denied result carries retry_after_seconds = window - (now mod
\* window), a value in 1..window, with the limit and the window; an Allowed
\* result carries no retry_after value.
C21_RetryAfter ==
    last.k > 0 =>
        /\ last.res = "Denied" =>
              /\ {"retry_after_seconds", "limit", "window_seconds"} \subseteq DOMAIN last.carried
              /\ last.carried.retry_after_seconds =
                     RATE_LIMIT_WINDOW - (last.at % RATE_LIMIT_WINDOW)
        /\ last.res = "Allowed" => "retry_after_seconds" \notin DOMAIN last.carried

\* C22: once a call for an (identifier, endpoint) was Denied in a window, no
\* later call for it made one after the other in that same window is Allowed,
\* whatever Redis outages and recoveries fall between the calls.
C22_NoAllowedAfterDenied ==
    [][\A c \in DOMAIN stats :
          (/\ ~overlap'
           /\ stats[c].denied > 0
           /\ c[3] = WindowStart(now')
           /\ c \in DOMAIN stats')
          => stats'[c].allowed = stats[c].allowed]_vars

\* C23: when the concurrent calls for one (identifier, endpoint) in one window
\* have all been served by the in-memory store and have ended, its counter
\* equals the number of those calls and at most `limit` of them were Allowed.
C23_LocalNoLostUpdate ==
    \A c \in DOMAIN stats :
        LET k == rate_limit_key(c[1], c[2])
        IN  (/\ enabled
             /\ \A p \in Procs : pc[p] = "idle"
             /\ stats[c].rdown
             /\ c[3] = WindowStart(now)
             /\ stats[c].allowed + stats[c].denied = stats[c].n)
            => /\ k \in DOMAIN memRate /\ Str(c[3]) \in DOMAIN memRate[k]
               /\ memRate[k][Str(c[3])] = stats[c].n
               /\ stats[c].allowed <= limit

\* C24: a call is served by exactly one store: a thread is on the in-memory
\* path (and increments the in-memory counter) only when its Redis attempt
\* failed or there is no client, and a call Redis answered ends without having
\* touched the in-memory counter.
C24_OneBackend ==
    /\ \A p \in Procs :
          pc[p] \in {"mem_ensure", "mem_load", "mem_store", "mem_clean", "mem_check"}
              => loc[p].remote \in {"fail", "none"}
    /\ (enabled /\ last.k > 0 /\ last.remote \in {"ok", "denied"}) => ~last.local

\* C25: a get that Redis answers with "no such key" returns a miss: it does
\* not look the key up in the memory cache.
C25_RemoteMissIsMiss ==
    (cacheLog.op = "get" /\ cacheClient /\ cacheLog.up /\ cacheLog.src # "redis")
    => cacheLog.res = Miss

\* The windows in which calls for (identifier, endpoint) have ended.
SeenWindows(identifier, endpoint) ==
    {c[3] : c \in {d \in DOMAIN stats : d[1] = identifier /\ d[2] = endpoint}}

\* The two largest numbers of a set (all of it when it has fewer).
TwoMostRecent(S) == {w \in S : Cardinality({v \in S : v > w}) < 2}

\* C26: after calls served by the in-memory store, made one after the other,
\* each key holds at most two window buckets, and they are the two most recent
\* windows in which the key was used.
C26_TwoMostRecentBuckets ==
    \A pr \in Pairs :
        LET k == rate_limit_key(pr[1], pr[2])
            seen == SeenWindows(pr[1], pr[2])
        IN  (/\ enabled
             /\ \A p \in Procs : pc[p] = "idle"
             /\ ~overlap
             /\ seen # {}
             /\ \A w \in seen : stats[<<pr[1], pr[2], w>>].rdown)
            => /\ k \in DOMAIN memRate
               /\ DOMAIN memRate[k] = {Str(w) : w \in TwoMostRecent(seen)}

\* C27: a call served by the in-memory store ends Allowed or Denied, never
\* with a KeyError for the bucket of its window.
C27_NoKeyError ==
    (last.k > 0 /\ ~overlap /\ last.local) => last.res \in {"Allowed", "Denied"}

\* C28: different (identifier, endpoint) pairs never share a counter: while
\* no call for a pair has been made, neither store holds a counter under that
\* pair's key, whatever calls were made for other pairs (the strings may
\* contain ':').
C28_PairIsolation ==
    \A pr \in Pairs :
        LET k == rate_limit_key(pr[1], pr[2])
        IN  (/\ SeenWindows(pr[1], pr[2]) = {}
             /\ \A p \in Procs : loc[p].id # pr[1] \/ loc[p].ep # pr[2])
            => /\ k \notin DOMAIN memRate
               /\ \A w \in WindowStart(StartTime)..WindowStart(now) :
                     redis_key(k, w) \notin DOMAIN redisDb

\* C29: a cache operation (get, set, delete, clear with or without a pattern)
\* leaves every rate-limit counter as it was, in Redis and in memory.
C29_CacheLeavesRateState ==
    [][cacheLog' # cacheLog =>
          /\ memRate' = memRate
          /\ \A k \in (DOMAIN redisDb) \ CacheKeys :
                k \in DOMAIN redisDb' /\ redisDb'[k] = redisDb[k]]_vars

\* C30: after any sequence of get, set, delete and clear calls made one after
\* the other, _memory_cache and _cache_timestamps have the same keys.
C30_SameKeys == DOMAIN memCache = DOMAIN memTs

\* C30 witness: without a Redis client, an entry set into the memory cache has
\* expired and has just been dropped by a get.
C30_Witness ==
    /\ cacheLog.op = "get" /\ cacheLog.src = "memory" /\ cacheLog.res = Miss
    /\ khist[cacheLog.key].n > 0 /\ khist[cacheLog.key].gone = "no"
    /\ cacheLog.at - khist[cacheLog.key].at >= cache_ttl
    /\ cacheLog.key \notin DOMAIN memCache
    /\ ~cacheClient

====
